---- MODULE Spec2Model ----
(***************************************************************************)
(* cello::ObjectList (src/cello/cello_objectList.h): a typed array of      *)
(* owned wrappers, _objects, kept in step with the children of an observed *)
(* juce::ValueTree node through the child-added / child-removed /          *)
(* child-order-changed listener callbacks.                                 *)
(*                                                                         *)
(* Indexes are 0-based as in the source; sequences are 1-based, so the     *)
(* element at index i is seq[i + 1].                                       *)
(***************************************************************************)
EXTENDS Integers, Sequences, FiniteSets, TLC

VARIABLES
    tree,       \* the observed node's children, in tree order
    objects,    \* _objects: the wrappers, in collection order
    pc,         \* "init" before rebuildObjects, "idle" between operations,
                \* "clear" inside clear()'s loop, "done" after the run's last operation
    op,         \* the run's last operation: its arguments and the state it started in
    hooks,      \* extension hooks invoked by the last operation, in call order
    asserts,    \* sites whose jassert fired during the last operation
    destroyed,  \* wrappers destroyed by the last operation, in order
    calls,      \* nodes createNewObject was called with by the last operation
    notes,      \* notifications the listener received during the last operation
    factoryFailed   \* createNewObject has returned nullptr in this run

vars == <<tree, objects, pc, op, hooks, asserts, destroyed, calls, notes,
          factoryFailed>>

\* ------------------------------------------------------------------ bounds
MaxChildren == 3

\* ------------------------------------------------------------------ nodes
\* The concrete list type decides validity and supplies the factory; the
\* model fixes one such type over a small universe of nodes.
ValidNodes == {"A", "B", "C"}
InvalidNodes == {"X"}
\* nodes that pass isValidAsChild but for which the factory returns nullptr
NullNodes == {"N"}
Nodes == ValidNodes \cup InvalidNodes \cup NullNodes
\* a node that lives below one of the observed node's children
DeepNode == "G"
Self == "self"
Root == "root"
Elsewhere == "elsewhere"

\* A wrapper is its node and an identity.  Between operations the identity is
\* the slot of _objects that holds the wrapper; a wrapper created during an
\* operation has identity NewId until the operation has returned.
NewId == 0

\* nullptr
NoObject == [node |-> "null", id |-> -1]
NoNode == "none"

\* ------------------------------------------------------------ sequences
Range(seq) == {seq[k] : k \in 1..Len(seq)}

RemoveAt(seq, i) ==
    [k \in 1..(Len(seq) - 1) |-> IF k <= i THEN seq[k] ELSE seq[k + 1]]

InsertAt(seq, i, x) ==
    [k \in 1..(Len(seq) + 1) |->
        IF k <= i THEN seq[k] ELSE IF k = i + 1 THEN x ELSE seq[k - 1]]

\* juce array move: take the element at from, put it at to (to is clamped
\* to the last index when it is out of range)
MoveElem(seq, from, to) ==
    LET dest == IF to < 0 \/ to >= Len(seq) THEN Len(seq) - 1 ELSE to
    IN InsertAt(RemoveAt(seq, from), dest, seq[from + 1])

\* index of the first occurrence of x, or -1
FirstIndexOf(seq, x) ==
    IF \E k \in 1..Len(seq) : seq[k] = x
    THEN (CHOOSE k \in 1..Len(seq) :
              seq[k] = x /\ \A m \in 1..(k - 1) : seq[m] # x) - 1
    ELSE -1

\* ------------------------------------------------ the concrete list type
isValidAsChild(v) == v \in ValidNodes \cup NullNodes \cup {DeepNode}

\* the node a wrapper wraps
NodeOf(o) == o.node

\* a new wrapper of node v (nullptr for the nodes the factory rejects)
createNewObject(v) ==
    IF v \in NullNodes THEN NoObject ELSE [node |-> v, id |-> NewId]

\* ------------------------------------------------------- tree queries
\* Object::indexOf: the position of a node among the observed node's children
indexOf(s, v) == FirstIndexOf(s.tree, v)

getNumChildren(s) == Len(s.tree)

\* ValueTree::getParent of a node
getParent(s, v) ==
    IF indexOf(s, v) >= 0 THEN Self
    ELSE IF v = Self THEN Root
    ELSE Elsewhere

\* ------------------------------------------------------------ queries
objectCount(s) == Len(s.objects)

getObjectInRange(s, index) == index >= 0 /\ index < Len(s.objects)

getObject(s, index) ==
    IF getObjectInRange(s, index) THEN s.objects[index + 1] ELSE NoObject

\* isChildTree without the call of isValidAsChild
isChildTreeAnyType(s, v) == getParent(s, v) = Self

isChildTree(s, v) == isValidAsChild(v) /\ getParent(s, v) = Self

compareElements(s, first, second) ==
    indexOf(s, NodeOf(first)) - indexOf(s, NodeOf(second))

\* --------------------------------------------------------------- hooks
HookRec(kind, o, oldIndex, newIndex, s) ==
    [kind |-> kind, obj |-> o, oldIndex |-> oldIndex, newIndex |-> newIndex,
     inList |-> o \in Range(s.objects),
     alive |-> o \notin Range(s.destroyed)]

onObjectAdded(s, o) ==
    [s EXCEPT !.hooks = Append(@, HookRec("added", o, -1, -1, s))]

onObjectRemoved(s, o) ==
    [s EXCEPT !.hooks = Append(@, HookRec("removed", o, -1, -1, s))]

onObjectOrderChanged(s, oldIndex, newIndex) ==
    [s EXCEPT !.hooks = Append(@, HookRec("order", NoObject, oldIndex, newIndex, s))]

jassertFailed(s, site) == [s EXCEPT !.asserts = @ \cup {site}]

\* createNewObject returned nullptr
factoryReturnedNull(s) == [s EXCEPT !.factoryFailed = TRUE]

\* createNewObject is called with node v
factoryCalled(s, v) == [s EXCEPT !.calls = Append(@, v)]

\* the listener receives a notification
notified(s, kind, parentTree, childTree, index) ==
    [s EXCEPT !.notes = Append(@, [kind |-> kind, parent |-> parentTree,
                                   child |-> childTree, index |-> index])]

\* --------------------------------------------------- juce::OwnedArray
\* OwnedArray::removeObject(o, true): detach the slot and delete the object
ArrayRemoveObjectAndDelete(s, o) ==
    LET i == FirstIndexOf(s.objects, o)
    IN IF i < 0 THEN s
       ELSE [s EXCEPT !.objects = RemoveAt(@, i), !.destroyed = Append(@, o)]

\* OwnedArray::removeObject(o, false): detach the first slot holding o
ArrayRemoveObject(s, o) ==
    LET i == FirstIndexOf(s.objects, o)
    IN IF i < 0 THEN s ELSE [s EXCEPT !.objects = RemoveAt(@, i)]

DeleteObject(s, o) == [s EXCEPT !.destroyed = Append(@, o)]

\* OwnedArray::clear(): destroy every element, last to first
ArrayClear(s) ==
    [s EXCEPT !.objects = <<>>,
              !.destroyed = @ \o [k \in 1..Len(s.objects) |->
                                     s.objects[Len(s.objects) + 1 - k]]]

ArrayAdd(s, o) == [s EXCEPT !.objects = Append(@, o)]

\* findInsertIndexInSortedArray: juce's binary search with compareElements
RECURSIVE findInsertIndex(_, _, _, _)
findInsertIndex(s, newElement, firstElement, lastElement) ==
    IF firstElement >= lastElement THEN firstElement
    ELSE IF compareElements(s, newElement, s.objects[firstElement + 1]) = 0
    THEN firstElement + 1
    ELSE LET halfway == (firstElement + lastElement) \div 2
             c == compareElements(s, newElement, s.objects[halfway + 1])
         IN IF halfway = firstElement
            THEN (IF c >= 0 THEN firstElement + 1 ELSE firstElement)
            ELSE IF c >= 0
            THEN findInsertIndex(s, newElement, halfway, lastElement)
            ELSE findInsertIndex(s, newElement, firstElement, halfway)

ArrayAddSorted(s, o) ==
    [s EXCEPT !.objects = InsertAt(@, findInsertIndex(s, o, 0, Len(s.objects)), o)]

\* OwnedArray::sort(*this): std::sort by compareElements; the order of
\* wrappers that compare equal is unspecified, so every sorted permutation
\* is a possible result
SortResults(s) ==
    LET n == Len(s.objects)
    IN {[k \in 1..n |-> s.objects[f[k]]] :
          f \in {g \in [1..n -> 1..n] :
                   /\ \A a, b \in 1..n : a # b => g[a] # g[b]
                   /\ \A a, b \in 1..n : a < b =>
                          compareElements(s, s.objects[g[a]], s.objects[g[b]]) <= 0}}

\* ------------------------------------------------ listener callbacks
\* valueTreeChildAdded (parentTree, childTree)
valueTreeChildAdded(s0, parentTree, childTree) ==
    LET s == notified(s0, "added", parentTree, childTree, -1)
    IN IF ~isChildTree(s, childTree) THEN s
       ELSE LET index == indexOf(s, childTree)
                newObject == createNewObject(childTree)
                called == factoryCalled(s, childTree)
            IN IF newObject # NoObject
               THEN LET placed == IF index = getNumChildren(s) - 1
                                  THEN ArrayAdd(called, newObject)
                                  ELSE ArrayAddSorted(called, newObject)
                    IN onObjectAdded(placed, newObject)
               ELSE jassertFailed(factoryReturnedNull(called),
                                  "valueTreeChildAdded")

\* valueTreeChildRemoved (parentTree, childTree, index)
valueTreeChildRemoved(s0, parentTree, childTree, index) ==
    LET s == notified(s0, "removed", parentTree, childTree, index)
    IN IF parentTree # Self THEN s
       ELSE IF ~getObjectInRange(s, index) THEN jassertFailed(s, "getObject")
       ELSE LET o == getObject(s, index)
            IN DeleteObject(onObjectRemoved(ArrayRemoveObject(s, o), o), o)

\* valueTreeChildOrderChanged (childTree, oldIndex, newIndex); childTree is
\* the node the notification carries.  The set of possible outcomes.
valueTreeChildOrderChanged(s0, childTree, oldIndex, newIndex) ==
    LET s == notified(s0, "order", childTree, childTree, oldIndex)
    IN IF getParent(s, childTree) # Self THEN {s}
       ELSE {onObjectOrderChanged([s EXCEPT !.objects = p], oldIndex, newIndex) :
                p \in SortResults(s)}

\* ------------------------------------------- juce::ValueTree mutations
\* each mutates the children and synchronously notifies the listener

\* ValueTree::addChild (child, index): index -1 or past the end appends
TreeAddChild(s, v, index) ==
    IF indexOf(s, v) >= 0 THEN s
    ELSE LET at == IF index < 0 \/ index > Len(s.tree) THEN Len(s.tree) ELSE index
         IN valueTreeChildAdded([s EXCEPT !.tree = InsertAt(@, at, v)], Self, v)

\* ValueTree::removeChild (index): nothing happens for an index out of range
TreeRemoveChild(s, index) ==
    IF index < 0 \/ index >= Len(s.tree) THEN s
    ELSE valueTreeChildRemoved([s EXCEPT !.tree = RemoveAt(@, index)],
                               Self, s.tree[index + 1], index)

\* ValueTree::moveChild (currentIndex, newIndex): the notification carries
\* the node whose children were reordered
TreeMoveChild(s, currentIndex, newIndex) ==
    IF currentIndex = newIndex \/ currentIndex < 0 \/ currentIndex >= Len(s.tree)
    THEN {s}
    ELSE valueTreeChildOrderChanged(
             [s EXCEPT !.tree = MoveElem(@, currentIndex, newIndex)],
             Self, currentIndex, newIndex)

\* ValueTree::removeAllChildren: removes the last child until none is left
RECURSIVE TreeRemoveAllChildren(_)
TreeRemoveAllChildren(s) ==
    IF Len(s.tree) = 0 THEN s
    ELSE TreeRemoveAllChildren(TreeRemoveChild(s, Len(s.tree) - 1))

\* ------------------------------------------------------ public methods
\* removeObject that detaches the wrapper itself before it edits the tree
removeObjectDetaching(s, obj) ==
    TreeRemoveChild(ArrayRemoveObject(s, obj), indexOf(s, NodeOf(obj)))

removeObject(s, obj) == TreeRemoveChild(s, indexOf(s, NodeOf(obj)))

\* the children dropped without a notification to the listener
removeAllChildrenUnheard(s) == [s EXCEPT !.tree = <<>>]

removeAllChildren(s) == TreeRemoveAllChildren(s)

\* move without the range check of newIndex
moveUncheckedNewIndex(s, oldIndex, newIndex) ==
    LET n == Len(s.objects)
    IN IF oldIndex < 0 \/ oldIndex >= n THEN {s}
       ELSE IF oldIndex = newIndex THEN {s}
       ELSE TreeMoveChild(s, oldIndex, newIndex)

move(s, oldIndex, newIndex) ==
    LET n == Len(s.objects)
    IN IF oldIndex < 0 \/ oldIndex >= n THEN {s}
       ELSE IF newIndex < 0 \/ newIndex >= n THEN {s}
       ELSE IF oldIndex = newIndex THEN {s}
       ELSE TreeMoveChild(s, oldIndex, newIndex)

moveUp(s, index) ==
    IF index < 1 \/ index >= Len(s.objects) THEN {s}
    ELSE move(s, index, index - 1)

moveDown(s, index) ==
    IF index < 0 \/ index >= Len(s.objects) - 1 THEN {s}
    ELSE move(s, index, index + 1)

moveUpObject(s, obj) == moveUp(s, FirstIndexOf(s.objects, obj))

moveDownObject(s, obj) == moveDown(s, FirstIndexOf(s.objects, obj))

\* one iteration of clear()'s loop body
clearIteration(s) == removeObject(s, getObject(s, 0))

\* ------------------------------------------------------ rebuildObjects
\* the scan over the children: wrappers appended, invalid indexes recorded
RECURSIVE rebuildScan(_, _, _)
rebuildScan(s, k, invalidChildrenIndexes) ==
    IF k > Len(s.tree) THEN [s |-> s, invalid |-> invalidChildrenIndexes]
    ELSE LET v == s.tree[k]
             newObject == IF isValidAsChild(v) THEN createNewObject(v)
                          ELSE NoObject
             called == IF isValidAsChild(v) THEN factoryCalled(s, v) ELSE s
         IN IF newObject # NoObject
            THEN rebuildScan(ArrayAdd(called, newObject), k + 1,
                             invalidChildrenIndexes)
            ELSE rebuildScan(IF isValidAsChild(v) THEN factoryReturnedNull(called)
                             ELSE s,
                             k + 1, Append(invalidChildrenIndexes, indexOf(s, v)))

\* the recorded indexes left in the order of the scan
SortGreaterSkipped(seq) == seq

\* std::sort (..., std::greater<>())
RECURSIVE SortGreater(_)
SortGreater(seq) ==
    IF Len(seq) = 0 THEN <<>>
    ELSE LET m == CHOOSE k \in 1..Len(seq) : \A j \in 1..Len(seq) : seq[k] >= seq[j]
         IN <<seq[m]>> \o SortGreater(RemoveAt(seq, m - 1))

\* the deletion pass: Object::remove (i) for each recorded index in turn
RECURSIVE rebuildDelete(_, _)
rebuildDelete(s, indexes) ==
    IF Len(indexes) = 0 THEN s
    ELSE rebuildDelete(TreeRemoveChild(s, Head(indexes)), Tail(indexes))

\* rebuildObjects that runs the deletion pass whatever the flag says
rebuildObjectsAlwaysDelete(s, deleteInvalidChildren) ==
    LET checked == IF Len(s.objects) # 0 THEN jassertFailed(s, "rebuildObjects") ELSE s
        scan == rebuildScan(ArrayClear(checked), 1, <<>>)
    IN rebuildDelete(scan.s, SortGreater(scan.invalid))

rebuildObjects(s, deleteInvalidChildren) ==
    LET checked == IF Len(s.objects) # 0 THEN jassertFailed(s, "rebuildObjects") ELSE s
        scan == rebuildScan(ArrayClear(checked), 1, <<>>)
    IN IF deleteInvalidChildren
       THEN rebuildDelete(scan.s, SortGreater(scan.invalid))
       ELSE scan.s

\* freeObjects(): _objects.clear()
freeObjects(s) == ArrayClear(s)

\* ---------------------------------------------------------- the state
\* A run is a construction, rebuildObjects, and a sequence of operations.
\* Only the last operation of a run is recorded (op, hooks, asserts,
\* destroyed, calls, notes); before it these are empty.

\* the program state an operation starts from, its logs empty
Cur == [tree |-> tree, objects |-> objects, hooks |-> <<>>, asserts |-> {},
        destroyed |-> <<>>, calls |-> <<>>, notes |-> <<>>,
        factoryFailed |-> factoryFailed]

\* _objects between two operations: each wrapper identified by its slot
Settle(objs) == [k \in 1..Len(objs) |-> [node |-> objs[k].node, id |-> k]]

OpRec(name, i, j, node, flag) ==
    [name |-> name, i |-> i, j |-> j, node |-> node, flag |-> flag,
     preTree |-> tree, preObjects |-> objects]

NoOp ==
    [name |-> "none", i |-> -1, j |-> -1, node |-> NoNode, flag |-> FALSE,
     preTree |-> <<>>, preObjects |-> <<>>]

\* an operation returned with result r: either the run goes on, or this was
\* the run's last operation and its record is kept
Return(r, o) ==
    /\ tree' = r.tree
    /\ factoryFailed' = r.factoryFailed
    /\ \/ /\ pc' = "idle"
          /\ objects' = Settle(r.objects)
          /\ op' = NoOp
          /\ hooks' = <<>>
          /\ asserts' = {}
          /\ destroyed' = <<>>
          /\ calls' = <<>>
          /\ notes' = <<>>
       \/ /\ pc' = "done"
          /\ objects' = r.objects
          /\ op' = o
          /\ hooks' = r.hooks
          /\ asserts' = r.asserts
          /\ destroyed' = r.destroyed
          /\ calls' = r.calls
          /\ notes' = r.notes

\* a wrapper that belongs to no slot of _objects
ForeignObject == [node |-> DeepNode, id |-> NewId]

Indexes == -1..MaxChildren

\* every sequence of distinct nodes of length at most MaxChildren
ChildSequences ==
    {q \in UNION {[1..n -> Nodes] : n \in 0..MaxChildren} :
        \A a, b \in 1..Len(q) : a # b => q[a] # q[b]}

\* the object is constructed over an existing node; _objects starts empty
Init ==
    /\ tree \in ChildSequences
    /\ objects = <<>>
    /\ pc = "init"
    /\ op = NoOp
    /\ hooks = <<>>
    /\ asserts = {}
    /\ destroyed = <<>>
    /\ calls = <<>>
    /\ notes = <<>>
    /\ factoryFailed = FALSE

\* ------------------------------------------------------------- actions
\* i records objectCount() at entry, j whether rebuildObjects ran before
RebuildObjects ==
    /\ pc \in {"init", "idle"}
    /\ \E deleteInvalidChildren \in BOOLEAN :
          Return(rebuildObjects(Cur, deleteInvalidChildren),
                 OpRec("rebuildObjects", Len(objects),
                       IF pc = "init" THEN 0 ELSE 1, NoNode,
                       deleteInvalidChildren))

\* another owner of the tree adds a child at a position
ExtAddChild ==
    /\ pc = "idle"
    /\ Len(tree) < MaxChildren
    /\ \E v \in Nodes \ Range(tree), index \in 0..Len(tree) :
          Return(TreeAddChild(Cur, v, index),
                 OpRec("addChild", index, -1, v, FALSE))

\* another owner of the tree removes the child at an index
ExtRemoveChild ==
    /\ pc = "idle"
    /\ \E index \in 0..(Len(tree) - 1) :
          Return(TreeRemoveChild(Cur, index),
                 OpRec("removeChild", index, -1, tree[index + 1], FALSE))

\* another owner of the tree reorders the children
ExtMoveChild ==
    /\ pc = "idle"
    /\ \E currentIndex, newIndex \in 0..(Len(tree) - 1) :
          /\ currentIndex # newIndex
          /\ \E r \in TreeMoveChild(Cur, currentIndex, newIndex) :
                Return(r, OpRec("moveChild", currentIndex, newIndex, NoNode, FALSE))

\* a node is added below one of the children: the listener hears it too
DeepChildAdded ==
    /\ pc = "idle"
    /\ \E c \in Range(tree) :
          Return(valueTreeChildAdded(Cur, c, DeepNode),
                 OpRec("deepAdded", -1, -1, c, FALSE))

\* a node is removed from below one of the children
DeepChildRemoved ==
    /\ pc = "idle"
    /\ \E c \in Range(tree), index \in 0..1 :
          Return(valueTreeChildRemoved(Cur, c, DeepNode, index),
                 OpRec("deepRemoved", index, -1, c, FALSE))

\* the children of a child (c in the tree), or of a deeper node, are reordered
DeepOrderChanged ==
    /\ pc = "idle"
    /\ \E c \in Range(tree) \cup {DeepNode}, oldIndex, newIndex \in 0..1 :
          /\ oldIndex # newIndex
          /\ \E r \in valueTreeChildOrderChanged(Cur, c, oldIndex, newIndex) :
                Return(r, OpRec("deepOrder", oldIndex, newIndex, c, FALSE))

\* removeObject of a wrapper of the collection or of a wrapper that belongs
\* to no slot; i records the slot that holds it, or -1
RemoveObject ==
    /\ pc = "idle"
    /\ \E obj \in Range(objects) \cup {ForeignObject} :
          Return(removeObject(Cur, obj),
                 OpRec("removeObject", FirstIndexOf(objects, obj), -1,
                       NodeOf(obj), FALSE))

RemoveAllChildren ==
    /\ pc = "idle"
    /\ Return(removeAllChildren(Cur),
              OpRec("removeAllChildren", -1, -1, NoNode, FALSE))

Move ==
    /\ pc = "idle"
    /\ \E oldIndex, newIndex \in Indexes :
          \E r \in move(Cur, oldIndex, newIndex) :
             Return(r, OpRec("move", oldIndex, newIndex, NoNode, FALSE))

MoveUp ==
    /\ pc = "idle"
    /\ \E index \in Indexes :
          \E r \in moveUp(Cur, index) :
             Return(r, OpRec("moveUp", index, -1, NoNode, FALSE))

MoveDown ==
    /\ pc = "idle"
    /\ \E index \in Indexes :
          \E r \in moveDown(Cur, index) :
             Return(r, OpRec("moveDown", index, -1, NoNode, FALSE))

\* moveUp (ObjectType*): i records the index _objects.indexOf resolved
MoveUpObject ==
    /\ pc = "idle"
    /\ \E obj \in Range(objects) \cup {ForeignObject} :
          \E r \in moveUpObject(Cur, obj) :
             Return(r, OpRec("moveUpObject", FirstIndexOf(objects, obj), -1,
                             NodeOf(obj), FALSE))

MoveDownObject ==
    /\ pc = "idle"
    /\ \E obj \in Range(objects) \cup {ForeignObject} :
          \E r \in moveDownObject(Cur, obj) :
             Return(r, OpRec("moveDownObject", FirstIndexOf(objects, obj), -1,
                             NodeOf(obj), FALSE))

\* clear() is entered (as the run's last operation or not); its loop runs one
\* iteration per step
Clear ==
    /\ pc = "idle"
    /\ pc' = "clear"
    /\ op' \in {NoOp, OpRec("clear", -1, -1, NoNode, FALSE)}
    /\ UNCHANGED <<tree, objects, hooks, asserts, destroyed, calls, notes,
                   factoryFailed>>

\* while (objectCount() > 0) removeObject (getObject (0));
ClearStep ==
    /\ pc = "clear"
    /\ objectCount(Cur) > 0
    /\ LET r == clearIteration([Cur EXCEPT !.hooks = hooks, !.asserts = asserts,
                                            !.destroyed = destroyed,
                                            !.calls = calls, !.notes = notes])
       IN /\ tree' = r.tree
          /\ factoryFailed' = r.factoryFailed
          /\ objects' = r.objects
          /\ hooks' = IF op = NoOp THEN <<>> ELSE r.hooks
          /\ asserts' = IF op = NoOp THEN {} ELSE r.asserts
          /\ destroyed' = IF op = NoOp THEN <<>> ELSE r.destroyed
          /\ calls' = IF op = NoOp THEN <<>> ELSE r.calls
          /\ notes' = IF op = NoOp THEN <<>> ELSE r.notes
    /\ UNCHANGED <<pc, op>>

\* the loop condition fails: clear() returns
ClearReturn ==
    /\ pc = "clear"
    /\ objectCount(Cur) = 0
    /\ pc' = IF op = NoOp THEN "idle" ELSE "done"
    /\ UNCHANGED <<tree, objects, op, hooks, asserts, destroyed, calls, notes,
                   factoryFailed>>

\* the derived class calls freeObjects()
FreeObjects ==
    /\ pc = "idle"
    /\ Return(freeObjects(Cur), OpRec("freeObjects", -1, -1, NoNode, FALSE))

Next ==
    \/ RebuildObjects
    \/ ExtAddChild
    \/ ExtRemoveChild
    \/ ExtMoveChild
    \/ DeepChildAdded
    \/ DeepChildRemoved
    \/ DeepOrderChanged
    \/ RemoveObject
    \/ RemoveAllChildren
    \/ Move
    \/ MoveUp
    \/ MoveDown
    \/ MoveUpObject
    \/ MoveDownObject
    \/ Clear
    \/ ClearStep
    \/ ClearReturn
    \/ FreeObjects

Spec == Init /\ [][Next]_vars

\* ------------------------------------------------------------ notions
\* rebuildObjects has run and no operation is in progress
Settled == pc \in {"idle", "done"}

\* the run's last operation has returned and is on record
Done == pc = "done"

\* the nodes wrapped by a collection, in collection order
WrappedNodes(objs) == [k \in 1..Len(objs) |-> NodeOf(objs[k])]

\* the children that satisfy isValidAsChild, in tree order
ValidChildren(t) == SelectSeq(t, isValidAsChild)

\* a child for which the scan of rebuildObjects keeps a wrapper
Wrappable(v) == isValidAsChild(v) /\ createNewObject(v) # NoObject

\* the collection mirrors the tree's valid children
Mirrors(objs, t) == WrappedNodes(objs) = ValidChildren(t)

RemovedHooks == SelectSeq(hooks, LAMBDA h : h.kind = "removed")

\* ==================================================================
\* C1  Order invariant: once rebuildObjects has run and the last operation
\* has settled, the nodes wrapped by _objects, in collection order, are the
\* observed node's children that satisfy isValidAsChild, in tree order
\* (in runs where the factory never returned nullptr).
C1_OrderInvariant ==
    (Settled /\ ~factoryFailed) => WrappedNodes(objects) = ValidChildren(tree)

\* C2  Count invariant: in every settled state objectCount() is the number
\* of direct children that satisfy isValidAsChild (with a factory that
\* never returns nullptr).
C2_CountInvariant ==
    (Settled /\ ~factoryFailed) => objectCount(Cur) = Len(ValidChildren(tree))

\* C3  move(oldIndex, newIndex) with both indexes in [0, objectCount()) and
\* oldIndex # newIndex: when it has returned, the wrapper that was at
\* oldIndex is at newIndex, the other wrappers keep their relative order,
\* and onObjectOrderChanged ran exactly once, with (oldIndex, newIndex).
C3_MoveReorders ==
    (/\ Done
     /\ op.name = "move"
     /\ op.i # op.j
     /\ op.i >= 0 /\ op.i < Len(op.preObjects)
     /\ op.j >= 0 /\ op.j < Len(op.preObjects))
    => /\ objects = MoveElem(op.preObjects, op.i, op.j)
       /\ Len(hooks) = 1
       /\ hooks[1].kind = "order"
       /\ hooks[1].oldIndex = op.i
       /\ hooks[1].newIndex = op.j

\* C4  rebuildObjects(true) on an empty collection, over any children: when
\* it returns _objects holds one wrapper for every child that satisfied
\* isValidAsChild, in tree order, and the deletion pass detached or
\* destroyed no wrapper (the factory returned nullptr for none).
C4_RebuildKeepsWrappers ==
    (/\ Done
     /\ op.name = "rebuildObjects"
     /\ op.flag
     /\ op.i = 0
     /\ ~factoryFailed)
    => /\ WrappedNodes(objects) = ValidChildren(op.preTree)
       /\ destroyed = <<>>
       /\ RemovedHooks = <<>>

\* C5  rebuildObjects(true), tree effect: when it returns, the children are
\* exactly the children that satisfied isValidAsChild and got a wrapper from
\* createNewObject, in their original relative order.
C5_RebuildTreeEffect ==
    (Done /\ op.name = "rebuildObjects" /\ op.flag)
    => tree = SelectSeq(op.preTree, Wrappable)

\* a rebuildObjects(true) over children where an invalid node and a node the
\* factory rejects come before a valid one has returned
C5_Witness ==
    /\ Done
    /\ op.name = "rebuildObjects"
    /\ op.flag
    /\ Len(op.preTree) >= 3
    /\ op.preTree[1] \in InvalidNodes
    /\ op.preTree[2] \in NullNodes
    /\ op.preTree[3] \in ValidNodes
    /\ tree = <<op.preTree[3]>>

\* C6  rebuildObjects(false) leaves the children unchanged, leaves _objects
\* holding the wrappers of the valid children in tree order, and invokes
\* neither onObjectAdded nor onObjectRemoved.
C6_RebuildKeepsTree ==
    (Done /\ op.name = "rebuildObjects" /\ ~op.flag)
    => /\ tree = op.preTree
       /\ WrappedNodes(objects) = SelectSeq(op.preTree, Wrappable)
       /\ \A k \in 1..Len(hooks) : hooks[k].kind \notin {"added", "removed"}

\* a rebuildObjects(false) over an invalid child followed by two valid ones
\* has returned
C6_Witness ==
    /\ Done
    /\ op.name = "rebuildObjects"
    /\ ~op.flag
    /\ op.i = 0
    /\ Len(tree) = 3
    /\ tree[1] \in InvalidNodes
    /\ Len(objects) = 2

\* C7  A direct child that has a wrapper is removed from the tree by another
\* owner while _objects mirrors the valid children: afterwards _objects is
\* the previous collection minus that child's wrapper, onObjectRemoved ran
\* exactly once, with that wrapper, after it was detached and before it was
\* destroyed, and the wrapper is destroyed.
C7_ExternalRemove ==
    (/\ Done
     /\ op.name = "removeChild"
     /\ ~factoryFailed
     /\ Mirrors(op.preObjects, op.preTree)
     /\ op.node \in Range(WrappedNodes(op.preObjects)))
    => /\ WrappedNodes(objects) =
              RemoveAt(WrappedNodes(op.preObjects),
                       FirstIndexOf(WrappedNodes(op.preObjects), op.node))
       /\ Len(hooks) = 1
       /\ hooks[1].kind = "removed"
       /\ NodeOf(hooks[1].obj) = op.node
       /\ ~hooks[1].inList
       /\ hooks[1].alive
       /\ WrappedNodes(destroyed) = <<op.node>>

\* the collection is ordered by tree index
OrderedByTreeIndex(objs, t) ==
    \A a, b \in 1..Len(objs) :
        a < b => /\ FirstIndexOf(t, NodeOf(objs[a])) >= 0
                 /\ FirstIndexOf(t, NodeOf(objs[a])) < FirstIndexOf(t, NodeOf(objs[b]))

\* C8  A valid node is inserted as a direct child at any position: after the
\* notification _objects holds one new wrapper, of that node, the previous
\* wrappers keep their relative order, the collection is ordered by tree
\* index, and onObjectAdded ran exactly once, with the new wrapper, after it
\* was inserted.
C8_ExternalAdd ==
    (/\ Done
     /\ op.name = "addChild"
     /\ ~factoryFailed
     /\ op.node \in ValidNodes)
    => /\ Len(objects) = Len(op.preObjects) + 1
       /\ \E k \in 0..Len(op.preObjects) :
             /\ NodeOf(objects[k + 1]) = op.node
             /\ objects = InsertAt(op.preObjects, k, objects[k + 1])
       /\ OrderedByTreeIndex(objects, tree)
       /\ Len(hooks) = 1
       /\ hooks[1].kind = "added"
       /\ NodeOf(hooks[1].obj) = op.node
       /\ hooks[1].inList

\* C9  clear() terminates from every reachable state, with objectCount() = 0.
\* The loop body is deterministic and clear() returns only when _objects is
\* empty, so clear() terminates only if no iteration that starts with
\* wrappers left leaves the tree and _objects exactly as it found them.
C9_ClearTerminates ==
    (pc = "clear" /\ objectCount(Cur) > 0)
    => LET r == clearIteration(Cur)
       IN <<r.tree, r.objects>> # <<tree, objects>>

\* the arguments of the recorded move / moveUp / moveDown call are degenerate
DegenerateMove ==
    LET n == Len(op.preObjects)
    IN \/ /\ op.name = "move"
          /\ \/ op.i < 0 \/ op.i >= n
             \/ op.j < 0 \/ op.j >= n
             \/ op.i = op.j
       \/ op.name = "moveUp" /\ (op.i < 1 \/ op.i >= n)
       \/ op.name = "moveDown" /\ (op.i < 0 \/ op.i >= n - 1)
       \/ /\ op.name \in {"moveUpObject", "moveDownObject"}
          /\ op.node \notin Range(WrappedNodes(op.preObjects))

\* C10  Degenerate move arguments are silent no-ops: _objects and the
\* children are unchanged, no hook runs, nothing is destroyed and no
\* assertion fires.
C10_DegenerateMoveNoOp ==
    (Done /\ DegenerateMove)
    => /\ objects = op.preObjects
       /\ tree = op.preTree
       /\ hooks = <<>>
       /\ destroyed = <<>>
       /\ asserts = {}

\* move(0, objectCount()) has returned where the tree had a child at index
\* objectCount(), so that only the guard of move kept the tree from moving it
C10_Witness ==
    /\ Done
    /\ op.name = "move"
    /\ op.i = 0
    /\ op.j = Len(op.preObjects)
    /\ Len(op.preObjects) >= 1
    /\ Len(op.preTree) > Len(op.preObjects)
    /\ tree = op.preTree

\* C11  Rebuild-once: every invocation of rebuildObjects after the first one
\* is rejected by the assertion at its entry, whatever the first invocation
\* produced, also when it left the collection empty.
C11_RebuildOnce ==
    (Done /\ op.name = "rebuildObjects" /\ op.j = 1)
    => "rebuildObjects" \in asserts

NoDuplicates(seq) == \A a, b \in 1..Len(seq) : a # b => seq[a] # seq[b]

\* the wrappers createNewObject returned during the last operation
CreatedWrappers ==
    {createNewObject(calls[k]) : k \in 1..Len(calls)} \ {NoObject}

\* the wrappers _objects owned at some point of the last operation
OwnedWrappers == Range(op.preObjects) \cup CreatedWrappers

\* the wrappers the child-removed handler passed to onObjectRemoved
HandlerRemoved == {RemovedHooks[k].obj : k \in 1..Len(RemovedHooks)}

\* every wrapper is either still in _objects, once, or destroyed, once;
\* nothing else is destroyed and every hook receives a live wrapper
OwnershipKept ==
    /\ NoDuplicates(destroyed)
    /\ NoDuplicates(objects)
    /\ Range(destroyed) \cap Range(objects) = {}
    /\ Range(destroyed) \cup Range(objects) = OwnedWrappers
    /\ \A k \in 1..Len(hooks) : hooks[k].obj # NoObject => hooks[k].alive
    /\ op.name = "freeObjects" => objects = <<>>

C13_RemovedHandler ==
    (Done /\ op.name = "removeChild")
    => IF op.node \in Range(WrappedNodes(op.preObjects))
       THEN /\ Len(destroyed) = 1
            /\ NodeOf(destroyed[1]) = op.node
            /\ destroyed[1] \in Range(op.preObjects)
            /\ objects = RemoveAt(op.preObjects,
                                  FirstIndexOf(op.preObjects, destroyed[1]))
            /\ Len(hooks) = 1
            /\ hooks[1].kind = "removed"
            /\ hooks[1].obj = destroyed[1]
       ELSE /\ objects = op.preObjects
            /\ hooks = <<>>
            /\ destroyed = <<>>

\* C14  No stale or duplicate wrappers: in every settled state each wrapper
\* of _objects wraps a node that is a direct child of the observed node, and
\* no two wrappers wrap the same node, so compareElements is never 0 for two
\* distinct wrappers.
C14_NoStaleNoDuplicate ==
    Settled
    => /\ \A k \in 1..Len(objects) : indexOf(Cur, NodeOf(objects[k])) >= 0
       /\ \A a, b \in 1..Len(objects) :
             a # b => /\ NodeOf(objects[a]) # NodeOf(objects[b])
                      /\ compareElements(Cur, objects[a], objects[b]) # 0

\* C15  The listener receives a notification that comes from below a direct
\* child (a node added, removed or reordered there): _objects is unchanged,
\* none of the three hooks runs, no wrapper is created or destroyed.
C15_DeepNotificationsIgnored ==
    (Done /\ op.name \in {"deepAdded", "deepRemoved", "deepOrder"})
    => /\ objects = op.preObjects
       /\ hooks = <<>>
       /\ calls = <<>>
       /\ destroyed = <<>>

\* C16  A node that fails isValidAsChild is added as a direct child: the
\* child-added notification leaves _objects unchanged, createNewObject is not
\* called, no hook runs, and the node is in the tree where it was inserted.
C16_InvalidChildAdded ==
    (Done /\ op.name = "addChild" /\ ~isValidAsChild(op.node))
    => /\ objects = op.preObjects
       /\ calls = <<>>
       /\ hooks = <<>>
       /\ destroyed = <<>>
       /\ tree = InsertAt(op.preTree, op.i, op.node)

\* the listener has received the child-added notification of an invalid
\* node inserted in front of children that have wrappers
C16_Witness ==
    /\ Done
    /\ op.name = "addChild"
    /\ op.node \in InvalidNodes
    /\ op.i = 0
    /\ Len(op.preObjects) >= 2
    /\ Len(notes) = 1
    /\ notes[1].kind = "added"
    /\ notes[1].child = op.node
    /\ notes[1].parent = Self

\* C17  removeObject(wrapper) never edits _objects itself.  When the
\* wrapper's node is not a direct child, the tree removes nothing and sends
\* no notification: _objects, the tree and all wrappers are unchanged.  When
\* it is a direct child, the tree removes it and exactly one child-removed
\* notification, for that child, is processed before removeObject returns;
\* _objects changes only by what the handler detached.
C17_RemoveObjectFrame ==
    (Done /\ op.name = "removeObject")
    => LET index == FirstIndexOf(op.preTree, op.node)
       IN IF index < 0
          THEN /\ objects = op.preObjects
               /\ tree = op.preTree
               /\ notes = <<>>
               /\ hooks = <<>>
               /\ destroyed = <<>>
               /\ asserts = {}
          ELSE /\ tree = RemoveAt(op.preTree, index)
               /\ notes = <<[kind |-> "removed", parent |-> Self,
                             child |-> op.node, index |-> index]>>
               /\ \/ objects = op.preObjects /\ hooks = <<>>
                  \/ /\ Len(hooks) = 1
                     /\ hooks[1].kind = "removed"
                     /\ hooks[1].obj \in Range(op.preObjects)
                     /\ objects = RemoveAt(op.preObjects,
                                           FirstIndexOf(op.preObjects, hooks[1].obj))

\* removeObject has returned for a wrapper of the collection whose node was
\* a direct child behind an invalid child (its tree index is not its slot),
\* and the notification of the removal was processed
C17_Witness ==
    /\ Done
    /\ op.name = "removeObject"
    /\ op.i >= 0
    /\ FirstIndexOf(op.preTree, op.node) > op.i
    /\ Len(notes) = 1
    /\ Len(tree) = Len(op.preTree) - 1

\* C18  removeAllChildren(), over any mix of valid and invalid children:
\* when it has returned the observed node has no children, objectCount() is
\* 0, and onObjectRemoved ran exactly once for each wrapper that was in
\* _objects before the call.
C18_RemoveAllChildren ==
    (Done /\ op.name = "removeAllChildren")
    => /\ tree = <<>>
       /\ objectCount(Cur) = 0
       /\ Len(RemovedHooks) = Len(op.preObjects)
       /\ HandlerRemoved = Range(op.preObjects)

\* removeAllChildren() has returned for children where an invalid child came
\* before two valid ones that had wrappers, and a notification carried an
\* index outside the collection
C18_Witness ==
    /\ Done
    /\ op.name = "removeAllChildren"
    /\ Len(op.preTree) = 3
    /\ op.preTree[1] \in InvalidNodes
    /\ Len(op.preObjects) = 2
    /\ Len(RemovedHooks) = 2
    /\ "getObject" \in asserts
    /\ tree = <<>>

\* C19  The out-of-range assertion of getObject is never triggered by the
\* component itself: in an external removal, removeObject,
\* removeAllChildren, clear or rebuildObjects, every call of getObject(index)
\* by the child-removed handler or by clear() has index in
\* [0, objectCount()).
C19_GetObjectInRange ==
    (/\ Done
     /\ op.name \in {"removeChild", "removeObject", "removeAllChildren",
                      "clear", "rebuildObjects"})
    => "getObject" \notin asserts
====
